---------------------------- MODULE Spec2Model ----------------------------
(***************************************************************************)
(* State-machine model of the domain-adversarial training pipelines of     *)
(* the repository: the three Trainset classes (models/ICDAN.py,            *)
(* models/ACDANN_tf.py, models/CNN_recon.py) and the conditional           *)
(* adversarial loss with its two feature maps (models/ICDAN.py), the       *)
(* trainers' checkpoint calls, and the multi-domain entry point            *)
(* (train_multi.py).                                                       *)
(*                                                                         *)
(* Numbers are fixed point.  An accuracy returned by test() is held as a   *)
(* numerator over AccScale * (number of validation batches); a trade-off   *)
(* coefficient is held in units of 1/TradeoffScale.                        *)
(***************************************************************************)
EXTENDS Integers, Sequences, FiniteSets, TLC

(***************************************************************************)
(* Bounds of the model.                                                    *)
(***************************************************************************)
MaxEpoch == 2
BatchSize == 2
MaxSamples == 3
AccScale == 1
MaxSrcRows == 3
MaxTgtRows == 5
MaxCalls == 2
MaxDim == 2
MaxOutputDim == 2
MaxSeed == 1
MaxMapRows == 2
MaxMapSteps == 1
MaxUpdates == 3

(***************************************************************************)
(* Program constants.                                                      *)
(***************************************************************************)
TradeoffScale == 10 ^ 5

Trainers == {"ICDAN", "ACDANN", "CNN_recon"}
TrainModes == {"single_source", "source_combine", "multi_source"}
Adversarial == {"ICDAN", "ACDANN"}

(***************************************************************************)
(* Helpers on sequences and numbers.                                       *)
(***************************************************************************)
Max2(a, b) == IF a >= b THEN a ELSE b

CeilDiv(a, b) == (a + b - 1) \div b

RECURSIVE SumSeq(_)
SumSeq(s) == IF s = <<>> THEN 0 ELSE Head(s) + SumSeq(Tail(s))

RECURSIVE MaxSeq(_)
MaxSeq(s) == IF s = <<>> THEN 0 ELSE Max2(Head(s), MaxSeq(Tail(s)))

Count(s, e) == Cardinality({k \in 1..Len(s) : s[k] = e})

(***************************************************************************)
(* Data sources.  A loader over n samples yields ceil(n / BatchSize)       *)
(* batches per pass, the last one holding the remainder.  data.train,      *)
(* data.src and data.val are the sample counts behind the target 'train',  *)
(* the source and the target 'val' loaders.                                *)
(***************************************************************************)
LoaderLen(n) == CeilDiv(n, BatchSize)

BatchRows(n, k) ==
    IF k < LoaderLen(n) THEN BatchSize ELSE n - BatchSize * (LoaderLen(n) - 1)

\* utils.get_next_batch: the iterator of a source is restarted when it is
\* exhausted; pos is the number of batches already taken in the current pass.
NextPos(n, pos) == IF pos >= LoaderLen(n) THEN 1 ELSE pos + 1

\* torch.Tensor.chunk(2, dim=0) on a tensor of `rows` rows: the first chunk
\* holds ceil(rows / 2) rows, the second the rest.
ChunkFirst(rows) == CeilDiv(rows, 2)
ChunkSecond(rows) == rows - CeilDiv(rows, 2)

(***************************************************************************)
(* InitTrain._get_tradeoff: the "exp" policy resolves to                   *)
(* 2 / (1 + exp(-10 * epoch / max_epoch)) - 1, tabulated here in units of  *)
(* 1/TradeoffScale at progress quantised to twelfths; a literal number is  *)
(* passed through unchanged.                                               *)
(***************************************************************************)
ExpRamp ==
    <<39411, 68226, 84828, 93110, 96946, 98661,
      99416, 99745, 99889, 99951, 99979, 99990>>

\* a literal trade-off item, written as in the configuration
Literal(item) == CASE item = "0" -> 0 [] item = "1" -> 1 [] item = "2" -> 2

get_tradeoff(item, ep, max_ep) ==
    IF item = "exp"
    THEN LET k == (12 * ep) \div max_ep
         IN  IF k <= 0 THEN 0 ELSE IF k >= 12 THEN ExpRamp[12] ELSE ExpRamp[k]
    ELSE Literal(item) * TradeoffScale


(***************************************************************************)
(* Tensors.  A 2-d tensor is a sequence of rows, a row a sequence of       *)
(* integers.                                                               *)
(***************************************************************************)
Rows(x) == Len(x)
Cols(x) == IF x = <<>> THEN 0 ELSE Len(x[1])

\* torch.cat((a, b), dim=0)
Cat(a, b) == a \o b

\* torch.mm(a, b): a is B x K, b is K x R
Dot(row, b, r) ==
    LET RECURSIVE Acc(_)
        Acc(k) == IF k = 0 THEN 0 ELSE Acc(k - 1) + row[k] * b[k][r]
    IN  Acc(Len(row))

Mm(a, b) == [i \in 1..Rows(a) |-> [r \in 1..Cols(b) |-> Dot(a[i], b, r)]]

\* torch.mul(a, b), elementwise
Mul(a, b) == [i \in 1..Rows(a) |-> [r \in 1..Cols(a) |-> a[i][r] * b[i][r]]]

\* torch.bmm(g.unsqueeze(2), f.unsqueeze(1)): per sample the C x 1 column g
\* times the 1 x D row f, a B x C x D tensor
Bmm(g, f) ==
    [i \in 1..Rows(f) |-> [c \in 1..Cols(g) |-> [d \in 1..Cols(f) |-> g[i][c] * f[i][d]]]]

\* Tensor.view(batch_size, -1) of a B x C x D tensor: row-major flattening of
\* the trailing two dimensions
View(x, C, D) ==
    [i \in 1..Len(x) |-> [k \in 1..(C * D) |-> x[i][((k - 1) \div D) + 1][((k - 1) % D) + 1]]]

\* variant: the operands of bmm are exchanged (feature-major flattening)
MultiLinearMap_forward_swapped(f, g) == View(Bmm(f, g), Cols(f), Cols(g))

(***************************************************************************)
(* MultiLinearMap.forward                                                   *)
(***************************************************************************)
MultiLinearMap_forward(f, g) == View(Bmm(g, f), Cols(g), Cols(f))

(***************************************************************************)
(* RandomizedMultiLinearMap.  torch.randn draws from the global generator: *)
(* Randn(state, rows, cols) is the matrix drawn at generator state `state`, *)
(* and each draw advances the generator.                                   *)
(***************************************************************************)
Randn(state, rows, cols) ==
    [i \in 1..rows |-> [j \in 1..cols |-> ((state * 7 + i * 3 + j * 5) % 5) - 2]]

RngAdvance(state) == state + 1

\* __init__: Rf, Rg are plain tensor attributes (neither parameters nor
\* buffers), drawn in this order
RandomizedMultiLinearMap_init(features_dim, num_classes, output_dim, state) ==
    [kind |-> "randomized",
     Rf |-> Randn(state, features_dim, output_dim),
     Rg |-> Randn(RngAdvance(state), num_classes, output_dim),
     output_dim |-> output_dim,
     device |-> "cpu"]

MultiLinearMap_init ==
    [kind |-> "exact", Rf |-> <<>>, Rg |-> <<>>, output_dim |-> 0, device |-> "cpu"]

\* forward: the result is held as the numerator over sqrt(output_dim)
RandomizedMultiLinearMap_forward(m, f, g) == Mul(Mm(f, m.Rf), Mm(g, m.Rg))

\* variant: forward draws the projection afresh on every call
MapAfterForward_redraw(m, device, state) ==
    IF m.kind = "randomized"
    THEN [m EXCEPT !.Rf = Randn(state, Len(m.Rf), m.output_dim)]
    ELSE m

\* the map object after a forward call on `device`: self.Rf.to(device) and
\* self.Rg.to(device) build temporaries, no attribute is rebound
MapAfterForward(m, device, state) == m

\* the generator after a forward call: forward draws nothing
RngAfterForward(m, state) == state

Map_forward(m, f, g) ==
    IF m.kind = "randomized" THEN RandomizedMultiLinearMap_forward(m, f, g)
    ELSE MultiLinearMap_forward(f, g)

(***************************************************************************)
(* ConditionalDomainAdversarialLoss                                         *)
(***************************************************************************)
Ones(n) == [k \in 1..n |-> 1]
Zeros(n) == [k \in 1..n |-> 0]

\* variant: the two domains exchange their labels
DomainLabel_exchanged(sigmoid, s, t) == Cat(Zeros(s), Ones(t))

\* d_label = torch.cat((torch.ones(g_s.size(0), ..), torch.zeros(g_t.size(0), ..)))
\* the sigmoid head builds it of shape [n, 1], the two-class head of shape [n]
\* cast to long: the same entries either way
DomainLabel(sigmoid, s, t) == IF sigmoid THEN Cat(Ones(s), Zeros(t)) ELSE Cat(Ones(s), Zeros(t))

\* utils.binary_accuracy / utils.get_accuracy: the number of rows whose
\* thresholded prediction equals the label (the fraction is this over Len)
Matches(pred, label) == Cardinality({k \in 1..Len(label) : pred[k] = label[k]})

(***************************************************************************)
(* Gradient-reversal layers (utils.py).  A plain layer reverses with the   *)
(* fixed coefficient 1; a warm-start layer holds a step counter iter_num   *)
(* and reverses with                                                       *)
(*   lo + (hi - lo) * (2 / (1 + exp(-alpha * iter_num / max_iters)) - 1)   *)
(* computed BEFORE the counter advances (when auto_step is set).  For the  *)
(* loss's own layer (alpha = 1, lo = 0, hi = 1, max_iters = 1000) and the  *)
(* small counters explored here this is iter_num / (2 * max_iters) to      *)
(* within the resolution 1/TradeoffScale.                                  *)
(* Layer kinds: "plain", "warm_start" (auto_step), "warm_manual" (a warm-  *)
(* start layer stepped only from outside).                                 *)
(***************************************************************************)
WarmMaxIters == 1000

PlainCoeff == TradeoffScale

WarmCoeff(iter_num) ==
    LET c == (iter_num * TradeoffScale) \div (2 * WarmMaxIters)
    IN  IF c > TradeoffScale THEN TradeoffScale ELSE c

GrlCoeff(kind, iter_num) ==
    IF kind = "plain" THEN PlainCoeff ELSE WarmCoeff(iter_num)

\* variant: the default layer does not step itself
CDAL_grl_manual(grl) == IF grl = "None" THEN "warm_manual" ELSE grl

\* self.grl = WarmStartGradientReverseLayer(alpha=1., lo=0., hi=1.,
\*            max_iters=1000, auto_step=True) if grl is None else grl
CDAL_grl(grl) == IF grl = "None" THEN "warm_start" ELSE grl

\* __init__ (the discriminator and the map are held by reference)
CDAL_init(entropy_conditioning, sigmoid, grl) ==
    [entropy_conditioning |-> entropy_conditioning,
     sigmoid |-> sigmoid,
     grl |-> CDAL_grl(grl),
     iter_num |-> 0,
     domain_discriminator_accuracy |-> -1]

\* Trainset.__init__ of ICDAN: grl = utils.GradientReverseLayer();
\* self.domain_adv = ConditionalDomainAdversarialLoss(self.domain_discri, grl=grl)
Trainset_domain_adv == CDAL_init(FALSE, TRUE, "plain")

\* the loss object after forward has run up to its return or raise: the
\* gradient-reversal layer was invoked once (a warm-start layer with
\* auto_step advances its counter) and the accuracy was overwritten
\* variant: the accuracy is accumulated over the calls
CDAL_after_accumulating(a, pred, s, t) ==
    [a EXCEPT !.iter_num = IF a.grl = "warm_start" THEN @ + 1 ELSE @,
              !.domain_discriminator_accuracy =
                  Max2(@, 0) + Matches(pred, DomainLabel(a.sigmoid, s, t))]

CDAL_after(a, pred, s, t) ==
    [a EXCEPT !.iter_num = IF a.grl = "warm_start" THEN @ + 1 ELSE @,
              !.domain_discriminator_accuracy =
                  Matches(pred, DomainLabel(a.sigmoid, s, t))]

\* variant: the two-class head returns the unweighted loss
CDAL_status_silent(a) == "returned"

\* how forward ends: both heads return a loss, except the two-class head
\* with entropy conditioning, which raises
CDAL_status(a) ==
    IF a.sigmoid THEN "returned"
    ELSE IF a.entropy_conditioning THEN "NotImplementedError"
    ELSE "returned"

\* forward(g_s, f_s, g_t, f_t) with s source rows and t target rows, `pred`
\* the discriminator's thresholded output and `value` the cross-entropy
CDAL_forward(a, s, t, pred, value) ==
    [status |-> CDAL_status(a),
     s |-> s,
     t |-> t,
     pred |-> pred,
     d_label |-> DomainLabel(a.sigmoid, s, t),
     weighted |-> a.sigmoid /\ a.entropy_conditioning,
     coeff |-> GrlCoeff(a.grl, a.iter_num),
     loss |-> IF CDAL_status(a) = "returned" THEN value ELSE -1]

NoCall ==
    [status |-> "none", s |-> 0, t |-> 0, pred |-> <<>>, d_label |-> <<>>,
     weighted |-> FALSE, coeff |-> -1, loss |-> -1]

(***************************************************************************)
(* State.                                                                  *)
(*   Trainset (one trainer object and its train() call):                   *)
(*     args, data, attrs, pc, err, optimizer, lr_scheduler, sched_pos,     *)
(*     params, training, epoch, i, num_iter, tradeoff, iters, draws, step, *)
(*     new_acc, best_acc, best_epoch, acc_hist, reported, log,             *)
(*     epoch_loss, epoch_acc, iter_hist, train_avg, grads,                 *)
(*     disc_training (mode flag of the discriminator module), val_pass     *)
(*     (the locals of the latest test() call)                              *)
(*   ConditionalDomainAdversarialLoss object: adv, out, calls, built (how  *)
(*     it was constructed: by the ICDAN Trainset, with the default layer   *)
(*     or with a given one); in Spec it is the trainer's domain_adv        *)
(*   feature-map object: fmap, fmap0, dims, rng, mcall, mrepeat, msteps    *)
(*   checkpointing (save_model / load_model of a trainer): cargs,          *)
(*     state_dict, files, saved, cop, csteps                               *)
(*   multi-domain entry point (train_multi.py run as a script): argv,      *)
(*     margs, main_pc, main_err, trainer, save_dir, dir_exists, main_calls *)
(***************************************************************************)
VARIABLES args, data, attrs, pc, err, optimizer, lr_scheduler, sched_pos,
          params, training, epoch, i, num_iter, tradeoff, iters, draws, step,
          new_acc, best_acc, best_epoch, acc_hist, reported, log,
          epoch_loss, epoch_acc, iter_hist, train_avg, grads,
          disc_training, val_pass,
          adv, out, calls, built,
          fmap, fmap0, dims, rng, mcall, mrepeat, msteps,
          cargs, state_dict, files, saved, cop, csteps,
          argv, margs, main_pc, main_err, trainer, save_dir, dir_exists, main_calls

tvars == <<args, data, attrs, pc, err, optimizer, lr_scheduler, sched_pos,
           params, training, epoch, i, num_iter, tradeoff, iters, draws, step,
           new_acc, best_acc, best_epoch, acc_hist, reported, log,
           epoch_loss, epoch_acc, iter_hist, train_avg, grads,
           disc_training, val_pass>>
lvars == <<adv, out, calls, built>>
mvars == <<fmap, fmap0, dims, rng, mcall, mrepeat, msteps>>
cvars == <<cargs, state_dict, files, saved, cop, csteps>>
evars == <<argv, margs, main_pc, main_err, trainer, save_dir, dir_exists, main_calls>>
vars == <<tvars, lvars, mvars, cvars, evars>>

(***************************************************************************)
(* Trainset: construction.                                                 *)
(***************************************************************************)
\* attributes InitTrain.__init__ and _init_data leave on the trainer
BaseAttrs == {"args", "device", "datasets", "dataloaders", "iters"}

\* attributes the constructor of each Trainset assigns itself
ConstructorAttrs(m) ==
    CASE m = "ICDAN" -> {"domain_discri", "domain_adv", "model"}
      [] m = "ACDANN" -> {"model", "grl", "dist_beta"}
      [] m = "CNN_recon" -> {"model"}

\* `discriminator` is assigned by no constructor in the sources; whether the
\* base class provides it is explored both ways where it is read (ACDANN)
InheritedExtras(m) == IF m = "ACDANN" THEN {{}, {"discriminator"}} ELSE {{}}

\* the run configurations explored; fields a trainer never reads are fixed,
\* and so are the options in the modes that select the source as
\* single_source does or raise before any option is read
ArgsSpace ==
    {a \in [model_name : Trainers, train_mode : TrainModes,
            max_epoch : 0..MaxEpoch, lr_scheduler : {"fix", "stepLR"},
            tsne : BOOLEAN, tradeoff : {"exp", "1"}] :
        /\ (a.model_name = "CNN_recon") => (a.tsne = FALSE /\ a.tradeoff = "exp")
        /\ (a.train_mode \in {"multi_source", "source_combine"}) =>
              (a.tsne = FALSE /\ a.tradeoff = "exp" /\ a.lr_scheduler = "fix")}

\* sample counts behind the loaders; the validation set is empty, a single
\* sample or the largest set
DataSpace == [train : 1..MaxSamples, src : 1..MaxSamples, val : {0, 1, MaxSamples}]

NoMode == [model |-> FALSE, disc |-> FALSE]

NoStep ==
    [loss_c |-> 0, loss_d |-> 0, loss |-> 0, s |-> 0, t |-> 0, ys |-> 0, yt |-> 0,
     d_label |-> <<>>, coeff |-> 0, acc_d |-> 0, ops |-> <<>>, reads |-> {},
     grad_into |-> {}, mode |-> NoMode]

\* no test() call has left locals behind
NoVal == [visited |-> <<>>, accs |-> <<>>, grad_enabled |-> <<>>]

ZeroLoss == [a |-> 0, b |-> 0]
ZeroAcc == [src |-> 0, disc |-> 0]
NoAvg == [n |-> 0, loss |-> ZeroLoss, acc |-> ZeroAcc]

TrainerIdle ==
    /\ args = [model_name |-> "ICDAN", train_mode |-> "single_source", max_epoch |-> 0,
               lr_scheduler |-> "fix", tsne |-> FALSE, tradeoff |-> "exp"]
    /\ data = [train |-> 1, src |-> 1, val |-> 0]
    /\ attrs = {}
    /\ pc = "idle"
    /\ err = "none"
    /\ optimizer = "unset"
    /\ lr_scheduler = "unset"
    /\ sched_pos = 0
    /\ params = 0
    /\ training = TRUE
    /\ epoch = 0
    /\ i = 0
    /\ num_iter = 0
    /\ tradeoff = 0
    /\ iters = [train |-> 0, src |-> 0]
    /\ draws = 0
    /\ step = NoStep
    /\ new_acc = 0
    /\ best_acc = 0
    /\ best_epoch = 0
    /\ acc_hist = <<>>
    /\ reported = <<>>
    /\ log = <<>>
    /\ epoch_loss = ZeroLoss
    /\ epoch_acc = ZeroAcc
    /\ iter_hist = <<>>
    /\ train_avg = NoAvg
    /\ grads = 0
    /\ disc_training = TRUE
    /\ val_pass = NoVal

LossIdle ==
    /\ adv = Trainset_domain_adv
    /\ out = NoCall
    /\ calls = 0
    /\ built = "Trainset"

NoMapCall == [n |-> 0, f |-> <<>>, g |-> <<>>, device |-> "none", out |-> <<>>]
NoRepeat == [same |-> FALSE, out |-> <<>>]

MapIdle ==
    /\ fmap = MultiLinearMap_init
    /\ fmap0 = MultiLinearMap_init
    /\ dims = [D |-> 0, C |-> 0]
    /\ rng = 0
    /\ mcall = NoMapCall
    /\ mrepeat = NoRepeat
    /\ msteps = 0

(***************************************************************************)
(* Checkpoint files.  A path is the sequence of its parts, so that          *)
(* save_path + '.pth' is the path with one more part; '' is the empty       *)
(* sequence.  A file holds the 'model' entry of the saved dictionary.       *)
(***************************************************************************)
SavePaths == {<<"run">>, <<"run", ".pth">>}
LoadPaths == {<<>>, <<"run">>, <<"run", ".pth">>, <<"run", ".pth", ".pth">>}
AllPaths == LoadPaths \cup {Append(q, ".pth") : q \in SavePaths}

Absent == -1
Stale == -2

CkptIdle ==
    /\ cargs = [has_save_path |-> FALSE, save_path |-> <<>>, load_path |-> <<>>]
    /\ state_dict = 0
    /\ files = [q \in AllPaths |-> Absent]
    /\ saved = Absent
    /\ cop = [op |-> "none", status |-> "none"]
    /\ csteps = 0

(***************************************************************************)
(* The entry point before it runs: no command line read, nothing parsed.    *)
(***************************************************************************)
Unparsed == [method |-> "unparsed", model_name |-> "unparsed"]

MainIdle ==
    /\ argv = [method |-> "absent", model_name |-> "absent"]
    /\ margs = Unparsed
    /\ main_pc = "idle"
    /\ main_err = "none"
    /\ trainer = "unset"
    /\ save_dir = <<>>
    /\ dir_exists = FALSE
    /\ main_calls = <<>>

\* Trainset.__init__ has run: nothing is trained, no optimizer exists
Init ==
    /\ args \in ArgsSpace
    /\ data \in DataSpace
    /\ \E x \in InheritedExtras(args.model_name) :
          attrs = BaseAttrs \cup ConstructorAttrs(args.model_name) \cup x
    /\ pc = "constructed"
    /\ err = "none"
    /\ optimizer = "unset"
    /\ lr_scheduler = "unset"
    /\ sched_pos = 0
    /\ params = 0
    /\ training = TRUE
    /\ epoch = 0
    /\ i = 0
    /\ num_iter = 0
    /\ tradeoff = 0
    /\ iters = [train |-> 0, src |-> 0]
    /\ draws = 0
    /\ step = NoStep
    /\ new_acc = 0
    /\ best_acc = 0
    /\ best_epoch = 0
    /\ acc_hist = <<>>
    /\ reported = <<>>
    /\ log = <<>>
    /\ epoch_loss = ZeroLoss
    /\ epoch_acc = ZeroAcc
    /\ iter_hist = <<>>
    /\ train_avg = NoAvg
    /\ grads = 0
    /\ disc_training = TRUE
    /\ val_pass = NoVal
    /\ LossIdle
    /\ MapIdle
    /\ CkptIdle
    /\ MainIdle

(***************************************************************************)
(* Trainset.train(): the decisions the loop is built from.                  *)
(***************************************************************************)
\* variant: the multi_source branch is missing and the mode falls through
SelectSource_fallthrough(train_mode) == "src"

\* the if/elif chain on args.train_mode: the source key, or the raise
SelectSource(train_mode) ==
    CASE train_mode = "single_source" -> "src"
      [] train_mode = "source_combine" -> "src"
      [] train_mode = "multi_source" -> "raise"

\* attributes train() reads when it builds the optimizer
OptimizerReads(m) ==
    CASE m = "ICDAN" -> {"model", "domain_discri"}
      [] m = "ACDANN" -> {"model", "discriminator"}
      [] m = "CNN_recon" -> {"model"}

\* variant: every trainer counts the batches of the source loader
NumIter_source(m, d) == LoaderLen(d.src)

\* num_iter = len(self.dataloaders[...]): the target 'train' loader in the
\* adversarial trainers, the source loader in CNN_recon
NumIter(m, d) ==
    IF m \in Adversarial THEN LoaderLen(d.train) ELSE LoaderLen(d.src)

\* variant: the scheduler is stepped before the validation pass
PhaseAfter_sched_first(m, p) ==
    CASE p = "train" -> "scheduler"
      [] p = "scheduler" -> "eval"
      [] p = "eval" -> "checkpoint"
      [] p = "checkpoint" -> IF m = "ICDAN" THEN "tsne" ELSE "loop"
      [] p = "tsne" -> "loop"

\* statement order of the loop body after the TrainPhase
PhaseAfter(m, p) ==
    CASE p = "train" -> "eval"
      [] p = "eval" -> "checkpoint"
      [] p = "checkpoint" -> "scheduler"
      [] p = "scheduler" -> IF m = "ICDAN" THEN "tsne" ELSE "loop"
      [] p = "tsne" -> "loop"

\* variant: strict comparison
IsBest_strict(acc, best) == acc > best

\* if new_acc >= best_acc
IsBest(acc, best) == acc >= best

\* variant: the domain loss enters unweighted
CombineLoss_unweighted(loss_c, tr, loss_d) == loss_c * TradeoffScale + loss_d * TradeoffScale

\* loss = loss_c + tradeoff[0] * loss_d, in units of 1/TradeoffScale
CombineLoss(loss_c, tr, loss_d) == loss_c * TradeoffScale + tr * loss_d

\* variant: the accumulated accuracy is returned without the division
TestAcc_undivided(accs) == SumSeq(accs) * Len(accs)

\* test(): acc accumulates the per-batch accuracies and is divided by the
\* number of batches; the result is the numerator over AccScale * Len(accs)
TestAcc(accs) == SumSeq(accs)

AccDen == AccScale * LoaderLen(data.val)

\* test(): for i in range(num_iter) draws next(iters) from a fresh iterator
\* of the 'val' loader, inside `with torch.no_grad()`; the locals it leaves
\* are the batches visited, whether gradients were tracked at each, and the
\* per-batch accuracies
TestLocals(accs) ==
    [visited |-> [k \in 1..Len(accs) |-> k],
     accs |-> accs,
     grad_enabled |-> [k \in 1..Len(accs) |-> FALSE]]

\* variant: the epoch head leaves the mode as the validation pass left it
ModeAtEpochHead_kept(mode) == mode

\* self.model.train() / self.domain_discri.train() at the head of each epoch
ModeAtEpochHead(mode) == TRUE

\* the mode flags an iteration runs under
Modes == [model |-> training, disc |-> disc_training]

LossVals == {1, 2}

Event(op, v) == [op |-> op, ep |-> epoch, v |-> v]

Fail(e) ==
    /\ pc' = "failed"
    /\ err' = e

(***************************************************************************)
(* The statements of one iteration, in source order.  "draw_target" and     *)
(* "draw_source" are the two get_next_batch calls, "forward" the call of    *)
(* the task model, "loss_c" the classification loss, "loss_d" the second    *)
(* loss term (domain loss; reconstruction loss in CNN_recon), "step"        *)
(* optimizer.step().                                                        *)
(***************************************************************************)
\* variant: the gradients are never cleared
IterOps_no_zero_grad(m) ==
    IF m \in Adversarial
    THEN <<"draw_target", "draw_source", "forward", "loss_c", "loss_d", "backward", "step">>
    ELSE <<"draw_source", "forward", "loss_c", "loss_d", "backward", "step">>

IterOps(m) ==
    IF m \in Adversarial
    THEN <<"draw_target", "draw_source", "zero_grad", "forward", "loss_c", "loss_d",
           "backward", "step">>
    ELSE <<"draw_source", "zero_grad", "forward", "loss_c", "loss_d", "backward", "step">>

\* the statement an error of the iteration is raised in
RaisedIn(e) == IF e = "shape_mismatch" THEN "loss_c" ELSE "loss_d"

RECURSIVE PrefixBefore(_, _)
PrefixBefore(ops, op) ==
    IF ops = <<>> \/ Head(ops) = op THEN <<>>
    ELSE <<Head(ops)>> \o PrefixBefore(Tail(ops), op)

\* the statements an iteration completes: all of them, or those before the raise
ExecutedOps(m, e) == IF e = "none" THEN IterOps(m) ELSE PrefixBefore(IterOps(m), RaisedIn(e))

\* the number of backward passes accumulated in the .grad buffers after `ops`
\* ran on buffers holding g passes: zero_grad clears, backward adds
RECURSIVE GradsAfter(_, _)
GradsAfter(ops, g) ==
    IF ops = <<>> THEN g
    ELSE GradsAfter(Tail(ops),
                    CASE Head(ops) = "zero_grad" -> 0
                      [] Head(ops) = "backward" -> g + 1
                      [] OTHER -> g)

(***************************************************************************)
(* Data flow of one iteration: an edge <<x, y, grad>> says y is computed    *)
(* from x, and grad that backward() propagates from y into x (FALSE for a   *)
(* detached value and for labels).                                         *)
(***************************************************************************)
BatchInputs == {"source_data", "source_labels", "target_data", "target_labels"}

\* variant: the classification loss is taken on all rows with all labels
ClassificationLossReads_all(m) == {"y", "source_labels", "target_labels"}

\* the operands of the classification loss
ClassificationLossReads(m) ==
    IF m \in Adversarial THEN {"y_s", "source_labels"} ELSE {"pred", "source_labels"}

\* how the class probabilities are obtained from the logits: ICDAN inside the
\* loss, g = F.softmax(g, dim=1).detach(); ACDANN in the loop body,
\* softmax_output_src = F.softmax(y_s, dim=-1), softmax_output_tgt likewise
ProbabilityEdges(m) ==
    IF m = "ICDAN" THEN {<<"g", "p", FALSE>>}
    ELSE {<<"y_s", "p_s", TRUE>>, <<"y_t", "p_t", TRUE>>}

Flow(m) ==
    IF m \in Adversarial
    THEN {<<"source_data", "data", TRUE>>, <<"target_data", "data", TRUE>>,
          <<"data", "y", TRUE>>, <<"data", "f", TRUE>>,
          <<"y", "y_s", TRUE>>, <<"y", "y_t", TRUE>>,
          <<"f", "f_s", TRUE>>, <<"f", "f_t", TRUE>>,
          <<"loss_c", "loss", TRUE>>, <<"loss_d", "loss", TRUE>>}
         \cup {<<x, "loss_c", x \notin BatchInputs>> : x \in ClassificationLossReads(m)}
         \cup ProbabilityEdges(m)
         \cup (IF m = "ICDAN"
               THEN {<<"f_s", "fcat", TRUE>>, <<"f_t", "fcat", TRUE>>,
                     <<"y_s", "g", TRUE>>, <<"y_t", "g", TRUE>>,
                     <<"fcat", "h", TRUE>>, <<"p", "h", TRUE>>,
                     <<"h", "d", TRUE>>, <<"d", "loss_d", TRUE>>}
               ELSE {<<"p_s", "feat_src", TRUE>>, <<"f_s", "feat_src", TRUE>>,
                     <<"p_t", "feat_tgt", TRUE>>, <<"f_t", "feat_tgt", TRUE>>,
                     <<"feat_src", "feat", TRUE>>, <<"feat_tgt", "feat", TRUE>>,
                     <<"feat", "logits_dm", TRUE>>, <<"logits_dm", "loss_d", TRUE>>})
    ELSE {<<"source_data", "pred", TRUE>>, <<"source_data", "recon", TRUE>>,
          <<"recon", "loss_d", TRUE>>, <<"source_data", "loss_d", FALSE>>,
          <<"loss_c", "loss", TRUE>>, <<"loss_d", "loss", TRUE>>}
         \cup {<<x, "loss_c", x \notin BatchInputs>> : x \in ClassificationLossReads(m)}

\* the values `targets` are computed from, along the edges E
RECURSIVE Ancestors(_, _)
Ancestors(E, targets) ==
    LET more == targets \cup {e[1] : e \in {x \in E : x[2] \in targets}}
    IN  IF more = targets THEN targets ELSE Ancestors(E, more)

\* the batch components the loss of an iteration (hence its update) depends on
LossReads(m) == Ancestors(Flow(m), {"loss"}) \cap BatchInputs

\* the outputs of the task model the domain loss is differentiated into
DomainGradInto(m) ==
    Ancestors({e \in Flow(m) : e[3]}, {"loss_d"}) \cap {"y", "f"}

(***************************************************************************)
(* The outputs of the networks on a batch are opaque: an iteration draws    *)
(* one outcome, and each metric of the iteration is a function of it.       *)
(* Accuracies are fractions held in units of 1/AccUnit.                     *)
(***************************************************************************)
ForwardOutcomes == {1, 2}

LossC(o) == o
LossD(o) == 3 - o

\* thresholded discriminator output on n rows
DiscPred(o, n) == IF o = 1 THEN [k \in 1..n |-> IF k <= BatchSize THEN 1 ELSE 0] ELSE Ones(n)

\* source rows classified correctly
SrcMatches(o, s) == IF o = 1 THEN s ELSE 0

RECURSIVE Factorial(_)
Factorial(n) == IF n <= 1 THEN 1 ELSE n * Factorial(n - 1)

AccUnit == Factorial(2 * BatchSize)

\* utils.get_accuracy / utils.binary_accuracy: correct rows over rows
Frac(matches, rows) == (matches * AccUnit) \div rows

\* variant: the accumulators of the previous epoch are carried on
FreshAccumulators_kept(prev) == prev

\* epoch_acc = defaultdict(float); epoch_loss = defaultdict(float)
FreshAccumulators(prev) == [k \in DOMAIN prev |-> 0]

(***************************************************************************)
(* train(), lines up to the epoch loop: mode check, optimizer, scheduler,  *)
(* best_acc = 0.0, best_epoch = 0.                                         *)
(***************************************************************************)
Train_Begin ==
    /\ pc = "constructed"
    /\ IF SelectSource(args.train_mode) = "raise"
       THEN /\ Fail("multi_source")
            /\ UNCHANGED <<optimizer, lr_scheduler, best_acc, best_epoch>>
       ELSE IF ~(OptimizerReads(args.model_name) \subseteq attrs)
       THEN /\ Fail("AttributeError")
            /\ UNCHANGED <<optimizer, lr_scheduler, best_acc, best_epoch>>
       ELSE /\ optimizer' = "created"
            /\ lr_scheduler' = IF args.lr_scheduler = "fix" THEN "None" ELSE "scheduler"
            /\ best_acc' = 0
            /\ best_epoch' = 0
            /\ pc' = "loop"
            /\ err' = err
    /\ UNCHANGED <<args, data, attrs, sched_pos, params, training, epoch, i, num_iter,
                   tradeoff, iters, draws, step, new_acc, acc_hist, reported, log,
                   epoch_loss, epoch_acc, iter_hist, train_avg, grads, disc_training,
                   val_pass>>
    /\ UNCHANGED <<lvars, mvars, cvars, evars>>

(***************************************************************************)
(* for epoch in range(1, max_epoch + 1): the loop head and the statements   *)
(* before the iteration loop (train mode, fresh accumulators, this epoch's  *)
(* tradeoff, num_iter); after the last epoch control leaves the loop.       *)
(***************************************************************************)
Epoch_Head ==
    /\ pc = "loop"
    /\ IF epoch < args.max_epoch
       THEN /\ epoch' = epoch + 1
            /\ training' = ModeAtEpochHead(training)
            /\ disc_training' = IF args.model_name \in Adversarial
                                THEN ModeAtEpochHead(disc_training) ELSE disc_training
            /\ tradeoff' = IF args.model_name \in Adversarial
                           THEN get_tradeoff(args.tradeoff, epoch + 1, args.max_epoch)
                           ELSE tradeoff
            /\ num_iter' = NumIter(args.model_name, data)
            /\ i' = 0
            /\ log' = <<>>
            /\ epoch_acc' = FreshAccumulators(epoch_acc)
            /\ epoch_loss' = FreshAccumulators(epoch_loss)
            /\ iter_hist' = <<>>
            /\ train_avg' = NoAvg
            /\ pc' = IF NumIter(args.model_name, data) = 0
                     THEN PhaseAfter(args.model_name, "train") ELSE "train"
       ELSE /\ pc' = "terminal"
            /\ UNCHANGED <<epoch, training, disc_training, tradeoff, num_iter, i, log,
                           epoch_acc, epoch_loss, iter_hist, train_avg>>
    /\ UNCHANGED <<args, data, attrs, err, optimizer, lr_scheduler, sched_pos, params,
                   iters, draws, step, new_acc, best_acc, best_epoch, acc_hist, reported,
                   grads, val_pass>>
    /\ UNCHANGED <<lvars, mvars, cvars, evars>>

(***************************************************************************)
(* One iteration of the TrainPhase, the whole loop body.                    *)
(*   adversarial trainers: draw the target batch, then the source batch,    *)
(*   zero_grad, one forward pass on the concatenation, chunk(2), the        *)
(*   classification loss on (y_s, source_labels), the domain loss, the      *)
(*   combined loss, backward, optimizer.step().                             *)
(*   CNN_recon: draw the source batch, forward, cls_loss + reconst_loss,    *)
(*   backward, optimizer.step().                                            *)
(* A classification loss over y_s and source_labels of different row counts *)
(* raises; in ACDANN f_t[idxx] raises when f_t has fewer rows than the      *)
(* source batch.                                                           *)
(***************************************************************************)
\* the domain labels the iteration builds: ICDAN through the loss object
\* (fed the two chunks), ACDANN inline from batch_size = source_data.shape[0]
IterDomainLabel(m, s, ys, yt) ==
    IF m = "ICDAN" THEN DomainLabel(TRUE, ys, yt) ELSE Cat(Ones(s), Zeros(s))

IterError(m, s, ys, yt) ==
    IF ys # s THEN "shape_mismatch"
    ELSE IF m = "ACDANN" /\ yt < s THEN "IndexError"
    ELSE "none"

TrainIter_adv ==
    /\ pc = "train"
    /\ args.model_name \in Adversarial
    /\ i < num_iter
    /\ LET m == args.model_name
           tpos == NextPos(data.train, iters.train)
           spos == NextPos(data.src, iters.src)
           t == BatchRows(data.train, tpos)
           s == BatchRows(data.src, spos)
           ys == ChunkFirst(s + t)
           yt == ChunkSecond(s + t)
           e == IterError(m, s, ys, yt)
           ops == ExecutedOps(m, e)
       IN  /\ iters' = [train |-> tpos, src |-> spos]
           /\ draws' = draws + Count(ops, "draw_target") + Count(ops, "draw_source")
           /\ grads' = GradsAfter(ops, grads)
           /\ params' = params + Count(ops, "step")
           /\ IF e # "none"
              THEN /\ Fail(e)
                   /\ step' = [NoStep EXCEPT !.s = s, !.t = t, !.ys = ys, !.yt = yt,
                                  !.ops = ops, !.mode = Modes,
                                  !.d_label = IF e = "IndexError"
                                              THEN IterDomainLabel(m, s, ys, yt)
                                              ELSE <<>>]
                   /\ UNCHANGED <<i, log, epoch_loss, epoch_acc, iter_hist, adv, out, calls>>
              ELSE /\ \E o \in ForwardOutcomes :
                         LET pred == DiscPred(o, ys + yt)
                             adv1 == IF m = "ICDAN" THEN CDAL_after(adv, pred, ys, yt) ELSE adv
                             \* ICDAN reads the attribute the call has just set;
                             \* ACDANN computes get_accuracy(logits_dm, labels_dm)
                             acc_d == IF m = "ICDAN"
                                      THEN Frac(adv1.domain_discriminator_accuracy, ys + yt)
                                      ELSE Frac(Matches(pred, IterDomainLabel(m, s, ys, yt)),
                                                ys + yt)
                             acc_s == Frac(SrcMatches(o, ys), ys)
                         IN  /\ step' = [loss_c |-> LossC(o), loss_d |-> LossD(o),
                                         loss |-> CombineLoss(LossC(o), tradeoff, LossD(o)),
                                         s |-> s, t |-> t, ys |-> ys, yt |-> yt,
                                         d_label |-> IterDomainLabel(m, s, ys, yt),
                                         coeff |-> IF m = "ICDAN"
                                                   THEN GrlCoeff(adv.grl, adv.iter_num)
                                                   ELSE PlainCoeff,
                                         acc_d |-> acc_d,
                                         ops |-> ops,
                                         reads |-> LossReads(m),
                                         grad_into |-> DomainGradInto(m),
                                         mode |-> Modes]
                             /\ adv' = adv1
                             /\ out' = IF m = "ICDAN"
                                       THEN CDAL_forward(adv, ys, yt, pred, LossD(o)) ELSE out
                             /\ calls' = IF m = "ICDAN" THEN calls + 1 ELSE calls
                             /\ epoch_loss' = [a |-> epoch_loss.a + LossC(o),
                                               b |-> epoch_loss.b + LossD(o)]
                             /\ epoch_acc' = [src |-> epoch_acc.src + acc_s,
                                              disc |-> epoch_acc.disc + acc_d]
                             /\ iter_hist' = Append(iter_hist,
                                                    [a |-> LossC(o), b |-> LossD(o),
                                                     src |-> acc_s, disc |-> acc_d])
                   /\ log' = Append(log, Event("opt", i + 1))
                   /\ i' = i + 1
                   /\ pc' = IF i + 1 = num_iter
                            THEN PhaseAfter(m, "train") ELSE "train"
                   /\ err' = err
    /\ UNCHANGED <<args, data, attrs, optimizer, lr_scheduler, sched_pos, training, epoch,
                   num_iter, tradeoff, new_acc, best_acc, best_epoch, acc_hist, reported,
                   train_avg, disc_training, val_pass>>
    /\ UNCHANGED <<built, mvars, cvars, evars>>

\* CNN_recon: epoch_loss['reconst_loss'] += reconst_loss and
\* epoch_loss['Source Classifier'] += loss (the total)
TrainIter_recon ==
    /\ pc = "train"
    /\ args.model_name = "CNN_recon"
    /\ i < num_iter
    /\ LET m == args.model_name
           spos == NextPos(data.src, iters.src)
           s == BatchRows(data.src, spos)
           ops == ExecutedOps(m, "none")
       IN  /\ iters' = [iters EXCEPT !.src = spos]
           /\ draws' = draws + Count(ops, "draw_source")
           /\ grads' = GradsAfter(ops, grads)
           /\ params' = params + Count(ops, "step")
           /\ \E o \in ForwardOutcomes :
                 LET acc_s == Frac(SrcMatches(o, s), s)
                     total == LossC(o) + LossD(o)
                 IN  /\ step' = [NoStep EXCEPT !.loss_c = LossC(o), !.loss_d = LossD(o),
                                    !.loss = total * TradeoffScale,
                                    !.s = s, !.ys = s, !.ops = ops,
                                    !.reads = LossReads(m), !.mode = Modes]
                     /\ epoch_loss' = [a |-> epoch_loss.a + total,
                                       b |-> epoch_loss.b + LossD(o)]
                     /\ epoch_acc' = [epoch_acc EXCEPT !.src = @ + acc_s]
                     /\ iter_hist' = Append(iter_hist,
                                            [a |-> total, b |-> LossD(o),
                                             src |-> acc_s, disc |-> 0])
    /\ log' = Append(log, Event("opt", i + 1))
    /\ i' = i + 1
    /\ pc' = IF i + 1 = num_iter THEN PhaseAfter(args.model_name, "train") ELSE "train"
    /\ UNCHANGED <<args, data, attrs, err, optimizer, lr_scheduler, sched_pos, training,
                   epoch, num_iter, tradeoff, new_acc, best_acc, best_epoch, acc_hist,
                   reported, train_avg, disc_training, val_pass>>
    /\ UNCHANGED <<lvars, mvars, cvars, evars>>

(***************************************************************************)
(* new_acc = self.test(): the model is put in eval mode, every batch of the *)
(* 'val' loader is visited once, the per-batch accuracies are summed and    *)
(* divided by the number of batches (0.0 / 0 raises ZeroDivisionError).     *)
(* The locals of the last iteration are dead from here on and are dropped.  *)
(* Before the call the epoch's averages are logged: every accumulator over  *)
(* num_iter.                                                                *)
(***************************************************************************)
EvalPhase ==
    /\ pc = "eval"
    /\ training' = FALSE
    /\ train_avg' = [n |-> num_iter, loss |-> epoch_loss, acc |-> epoch_acc]
    /\ IF LoaderLen(data.val) = 0
       THEN /\ Fail("ZeroDivisionError")
            /\ val_pass' = NoVal
            /\ UNCHANGED <<new_acc, acc_hist, log>>
       ELSE /\ \E accs \in [1..LoaderLen(data.val) -> 0..AccScale] :
                  /\ val_pass' = TestLocals(accs)
                  /\ new_acc' = TestAcc(accs)
                  /\ acc_hist' = Append(acc_hist, TestAcc(accs))
                  /\ log' = Append(log, Event("eval", TestAcc(accs)))
            /\ pc' = PhaseAfter(args.model_name, "eval")
            /\ err' = err
    /\ step' = NoStep
    /\ UNCHANGED <<args, data, attrs, optimizer, lr_scheduler, sched_pos, params, epoch, i,
                   num_iter, tradeoff, iters, draws, best_acc, best_epoch, reported,
                   epoch_loss, epoch_acc, iter_hist, grads, disc_training>>
    /\ UNCHANGED <<lvars, mvars, cvars, evars>>

(***************************************************************************)
(* if new_acc >= best_acc: best_acc = new_acc; best_epoch = epoch           *)
(* followed by the log line that reports best_epoch and best_acc.           *)
(***************************************************************************)
CheckpointDecision ==
    /\ pc = "checkpoint"
    /\ IF IsBest(new_acc, best_acc)
       THEN /\ best_acc' = new_acc
            /\ best_epoch' = epoch
       ELSE UNCHANGED <<best_acc, best_epoch>>
    /\ reported' = <<best_epoch', best_acc'>>
    /\ log' = Append(log, Event("ckpt", new_acc))
    /\ val_pass' = NoVal
    /\ pc' = PhaseAfter(args.model_name, "checkpoint")
    /\ UNCHANGED <<args, data, attrs, err, optimizer, lr_scheduler, sched_pos, params,
                   training, epoch, i, num_iter, tradeoff, iters, draws, step, new_acc,
                   acc_hist, epoch_loss, epoch_acc, iter_hist, train_avg, grads,
                   disc_training>>
    /\ UNCHANGED <<lvars, mvars, cvars, evars>>

(***************************************************************************)
(* if self.lr_scheduler is not None: self.lr_scheduler.step()               *)
(***************************************************************************)
SchedulerStep ==
    /\ pc = "scheduler"
    /\ IF lr_scheduler # "None"
       THEN /\ sched_pos' = sched_pos + 1
            /\ log' = Append(log, Event("sched", sched_pos + 1))
       ELSE UNCHANGED <<sched_pos, log>>
    /\ pc' = PhaseAfter(args.model_name, "scheduler")
    /\ UNCHANGED <<args, data, attrs, err, optimizer, lr_scheduler, params, training,
                   epoch, i, num_iter, tradeoff, iters, draws, step, new_acc, best_acc,
                   best_epoch, acc_hist, reported, epoch_loss, epoch_acc, iter_hist,
                   train_avg, grads, disc_training, val_pass>>
    /\ UNCHANGED <<lvars, mvars, cvars, evars>>

(***************************************************************************)
(* ICDAN only, last statement of the loop body:                             *)
(*   if self.args.tsne: self.epoch = epoch;                                 *)
(*                      if epoch == 1 or epoch % 5 == 0: self.test_tsne()   *)
(***************************************************************************)
Tsne_Epoch ==
    /\ pc = "tsne"
    /\ IF args.tsne
       THEN /\ attrs' = attrs \cup {"epoch"}
            /\ IF epoch = 1 \/ epoch % 5 = 0
               THEN /\ training' = FALSE
                    /\ log' = Append(log, Event("tsne", epoch))
               ELSE UNCHANGED <<training, log>>
       ELSE UNCHANGED <<attrs, training, log>>
    /\ pc' = PhaseAfter(args.model_name, "tsne")
    /\ UNCHANGED <<args, data, err, optimizer, lr_scheduler, sched_pos, params, epoch, i,
                   num_iter, tradeoff, iters, draws, step, new_acc, best_acc, best_epoch,
                   acc_hist, reported, epoch_loss, epoch_acc, iter_hist, train_avg, grads,
                   disc_training, val_pass>>
    /\ UNCHANGED <<lvars, mvars, cvars, evars>>

(***************************************************************************)
(* After the loop: ACDANN renders the diagnostics when args.tsne is set     *)
(* (test_tsne reads self.epoch for the file name); every trainer then runs  *)
(* acc = self.test() and logs it.                                           *)
(***************************************************************************)
Terminal ==
    /\ pc = "terminal"
    /\ training' = FALSE
    /\ IF args.model_name = "ACDANN" /\ args.tsne /\ "epoch" \notin attrs
       THEN /\ Fail("AttributeError")
            /\ UNCHANGED <<new_acc, log, val_pass>>
       ELSE IF LoaderLen(data.val) = 0
       THEN /\ Fail("ZeroDivisionError")
            /\ log' = IF args.model_name = "ACDANN" /\ args.tsne
                      THEN Append(log, Event("tsne", epoch)) ELSE log
            /\ val_pass' = NoVal
            /\ UNCHANGED new_acc
       ELSE /\ \E accs \in [1..LoaderLen(data.val) -> 0..AccScale] :
                  /\ val_pass' = TestLocals(accs)
                  /\ new_acc' = TestAcc(accs)
                  /\ log' = (IF args.model_name = "ACDANN" /\ args.tsne
                             THEN Append(log, Event("tsne", epoch)) ELSE log)
                            \o <<Event("final", TestAcc(accs))>>
            /\ pc' = "done"
            /\ err' = err
    /\ UNCHANGED <<args, data, attrs, optimizer, lr_scheduler, sched_pos, params, epoch, i,
                   num_iter, tradeoff, iters, draws, step, best_acc, best_epoch, acc_hist,
                   reported, epoch_loss, epoch_acc, iter_hist, train_avg, grads,
                   disc_training>>
    /\ UNCHANGED <<lvars, mvars, cvars, evars>>

Next ==
    \/ Train_Begin
    \/ Epoch_Head
    \/ TrainIter_adv
    \/ TrainIter_recon
    \/ EvalPhase
    \/ CheckpointDecision
    \/ SchedulerStep
    \/ Tsne_Epoch
    \/ Terminal

Spec == Init /\ [][Next]_vars

(***************************************************************************)
(* The conditional adversarial loss as an object of its own: constructed   *)
(* with any combination of entropy_conditioning, sigmoid and the kind of   *)
(* gradient-reversal layer, then called.                                   *)
(***************************************************************************)
\* thresholded outputs of the discriminator on n rows (an opaque box)
Preds(n) == {Ones(n), Zeros(n), [k \in 1..n |-> k % 2]}

InitLoss ==
    /\ TrainerIdle
    /\ MapIdle
    /\ CkptIdle
    /\ MainIdle
    /\ \/ /\ built = "Trainset"
          /\ adv = Trainset_domain_adv
       \/ \E e \in BOOLEAN, sg \in BOOLEAN, grl \in {"None", "plain", "warm_manual"} :
             /\ built = IF grl = "None" THEN "default" ELSE "given"
             /\ adv = CDAL_init(e, sg, grl)
    /\ out = NoCall
    /\ calls = 0

Loss_forward ==
    /\ calls < MaxCalls
    /\ \E s \in 1..MaxSrcRows, t \in 1..MaxTgtRows, value \in LossVals :
          \E pred \in Preds(s + t) :
             /\ adv' = CDAL_after(adv, pred, s, t)
             /\ out' = CDAL_forward(adv, s, t, pred, value)
    /\ calls' = calls + 1
    /\ UNCHANGED <<built, tvars, mvars, cvars, evars>>

NextLoss == Loss_forward

SpecLoss == InitLoss /\ [][NextLoss]_vars

(***************************************************************************)
(* A conditional feature map as an object of its own: constructed (exact   *)
(* or randomized), then called on batches and carried through optimizer    *)
(* steps of the module that owns it.                                       *)
(***************************************************************************)
Devices == {"cpu", "cuda"}

\* the samples the calls are made with: a feature row of dimension D and
\* the class scores (in tenths) of dimension C, per sample kind q
FeatureRow(D, q) == [d \in 1..D |-> d + q]
ProbRow(C, q) == [c \in 1..C |-> IF (c = 1) = (q = 0) THEN 3 ELSE 7]
SampleKinds == {0, 1}

\* nn.Module.parameters() of the map: Rf and Rg are plain attributes
MapParameters(m) == {}

\* a parameter tensor after a gradient step
Updated(x) == [r \in 1..Len(x) |-> [c \in 1..Len(x[r]) |-> x[r][c] + 1]]

InitMap ==
    /\ TrainerIdle
    /\ LossIdle
    /\ CkptIdle
    /\ MainIdle
    /\ \E D \in 1..MaxDim, C \in 1..MaxDim, R \in 1..MaxOutputDim, seed \in 0..MaxSeed,
          randomized \in BOOLEAN :
          /\ dims = [D |-> D, C |-> C]
          /\ fmap = IF randomized THEN RandomizedMultiLinearMap_init(D, C, R, seed)
                    ELSE MultiLinearMap_init
          /\ rng = IF randomized THEN RngAdvance(RngAdvance(seed)) ELSE seed
    /\ fmap0 = fmap
    /\ mcall = NoMapCall
    /\ mrepeat = NoRepeat
    /\ msteps = 0

\* self.map(f, g)
Map_call ==
    /\ \E B \in 1..MaxMapRows, device \in Devices :
          \E q \in [1..B -> SampleKinds] :
             LET f == [r \in 1..B |-> FeatureRow(dims.D, q[r])]
                 g == [r \in 1..B |-> ProbRow(dims.C, q[r])]
             IN
             /\ mcall' = [n |-> 1, f |-> f, g |-> g, device |-> device,
                          out |-> Map_forward(fmap, f, g)]
             /\ mrepeat' = IF mcall.n > 0 /\ mcall.f = f /\ mcall.g = g
                           THEN [same |-> TRUE, out |-> mcall.out]
                           ELSE NoRepeat
             /\ fmap' = MapAfterForward(fmap, device, rng)
    /\ rng' = RngAfterForward(fmap, rng)
    /\ UNCHANGED <<fmap0, dims, msteps>>
    /\ UNCHANGED <<tvars, lvars, cvars, evars>>

\* optimizer.step() of the owning trainer: every registered parameter moves
Map_optimizer_step ==
    /\ msteps < MaxMapSteps
    /\ msteps' = msteps + 1
    /\ fmap' = [fmap EXCEPT !.Rf = IF "Rf" \in MapParameters(fmap) THEN Updated(@) ELSE @,
                            !.Rg = IF "Rg" \in MapParameters(fmap) THEN Updated(@) ELSE @]
    /\ UNCHANGED <<fmap0, dims, rng, mcall, mrepeat>>
    /\ UNCHANGED <<tvars, lvars, cvars, evars>>

NextMap ==
    \/ Map_call
    \/ Map_optimizer_step

SpecMap == InitMap /\ [][NextMap]_vars

(***************************************************************************)
(* Checkpointing of a trainer: save_model and load_model, called on demand  *)
(* between parameter updates.  args.load_path is the parser's --load_path   *)
(* (default ''); the parser defines no save_path, which is on args only     *)
(* when something else has put it there.                                   *)
(***************************************************************************)
\* variant: the artifact is written to save_path itself
SaveFile_plain(save_path) == save_path

\* the file save_model writes: self.args.save_path + '.pth'
SaveFile(save_path) == Append(save_path, ".pth")

\* the file load_model reads: self.args.load_path
LoadFile(load_path) == load_path

InitCkpt ==
    /\ TrainerIdle
    /\ LossIdle
    /\ MapIdle
    /\ MainIdle
    /\ \E has \in BOOLEAN, sp \in SavePaths, lp \in LoadPaths :
          cargs = [has_save_path |-> has,
                   save_path |-> IF has THEN sp ELSE <<>>,
                   load_path |-> lp]
    /\ state_dict = 0
    /\ \E old \in SUBSET {cargs.load_path} :
          files = [q \in AllPaths |-> IF q \in old THEN Stale ELSE Absent]
    /\ saved = Absent
    /\ cop = [op |-> "none", status |-> "none"]
    /\ csteps = 0

CkptRunning == cop.status \in {"none", "ok"}

\* torch.save({'model': self.model.state_dict()}, self.args.save_path + '.pth')
save_model ==
    /\ CkptRunning
    /\ IF ~cargs.has_save_path
       THEN /\ cop' = [op |-> "save", status |-> "AttributeError"]
            /\ UNCHANGED <<files, saved>>
       ELSE /\ files' = [files EXCEPT ![SaveFile(cargs.save_path)] = state_dict]
            /\ saved' = state_dict
            /\ cop' = [op |-> "save", status |-> "ok"]
    /\ UNCHANGED <<cargs, state_dict, csteps>>
    /\ UNCHANGED <<tvars, lvars, mvars, evars>>

\* ckpt = torch.load(self.args.load_path); self.model.load_state_dict(ckpt['model'])
load_model ==
    /\ CkptRunning
    /\ IF files[LoadFile(cargs.load_path)] = Absent
       THEN /\ cop' = [op |-> "load", status |-> "FileNotFoundError"]
            /\ UNCHANGED state_dict
       ELSE /\ state_dict' = files[LoadFile(cargs.load_path)]
            /\ cop' = [op |-> "load", status |-> "ok"]
    /\ UNCHANGED <<cargs, files, saved, csteps>>
    /\ UNCHANGED <<tvars, lvars, mvars, evars>>

\* a parameter update of the task model between the two calls
Ckpt_update ==
    /\ CkptRunning
    /\ csteps < MaxUpdates
    /\ csteps' = csteps + 1
    /\ state_dict' = csteps + 1
    /\ cop' = [op |-> "update", status |-> "ok"]
    /\ UNCHANGED <<cargs, files, saved>>
    /\ UNCHANGED <<tvars, lvars, mvars, evars>>

NextCkpt ==
    \/ save_model
    \/ load_model
    \/ Ckpt_update

SpecCkpt == InitCkpt /\ [][NextCkpt]_vars

(***************************************************************************)
(* train_multi.py run as a script: parse_args(), the save directory and the *)
(* logger, the dispatch on args.method, trainer.setup(), trainer.train().   *)
(* The four train_utils classes are imported from utils/ and enter only as  *)
(* the names the branches construct.                                       *)
(***************************************************************************)
\* choices=['DG', 'multiDA', 'base'] and default='multiDA' of --method
MethodChoices == {"DG", "multiDA", "base"}
MethodDefault == "multiDA"

\* default of --model_name
ModelNameDefault == "cnn_features_1d"

\* the values compared with in the if / elif chain, in source order
BranchKeys == <<"DG", "multiDA", "DA", "base">>

\* the branches of the chain; "else" is the final else
Branches == {BranchKeys[k] : k \in DOMAIN BranchKeys} \cup {"else"}

\* what is put after --method and --model_name on the command line
\* ("absent": the option is not given)
MethodArgs == MethodChoices \cup {"DA", "other", "absent"}
ModelNameArgs == {"absent", "CNN_1d", "resnet"}

\* argparse on one option: the default when absent; a value outside a
\* choices list makes parse_args() exit with a usage error
ParseOption(given, default) == IF given = "absent" THEN default ELSE given

ParseRejects(given) == given # "absent" /\ given \notin MethodChoices

\* the first branch whose comparison holds
BranchOf(method) ==
    IF \E k \in DOMAIN BranchKeys : BranchKeys[k] = method
    THEN method
    ELSE "else"

\* the class a branch constructs
TrainerOf(branch) ==
    CASE branch = "DG" -> "train_utils_DG"
      [] branch = "multiDA" -> "train_utils_DA"
      [] branch = "DA" -> "train_utils"
      [] branch = "base" -> "train_utils_base"
      [] OTHER -> "unset"

\* raise(x): an exception instance or class is raised as it is; anything
\* else (here the str 'The method does not exist.') makes the raise
\* statement itself fail with TypeError
Raise(kind, msg) ==
    IF kind = "exception"
    THEN [type |-> "Exception", msg |-> msg]
    ELSE [type |-> "TypeError", msg |-> "exceptions must derive from BaseException"]

\* the final else: raise('The method does not exist.')
ElseRaises == Raise("str", "The method does not exist.")

\* the model name a branch leaves in args
ModelNameAfter(branch, model_name) == IF branch = "base" THEN "CNN_1d" ELSE model_name

InitMain ==
    /\ TrainerIdle
    /\ LossIdle
    /\ MapIdle
    /\ CkptIdle
    /\ argv \in [method : MethodArgs, model_name : ModelNameArgs]
    /\ margs = Unparsed
    /\ main_pc = "start"
    /\ main_err = "none"
    /\ trainer = "unset"
    /\ save_dir = <<>>
    /\ dir_exists \in BOOLEAN
    /\ main_calls = <<>>

\* args = parse_args()
Main_Parse ==
    /\ main_pc = "start"
    /\ IF ParseRejects(argv.method)
       THEN /\ main_pc' = "exit"
            /\ main_err' = "SystemExit"
            /\ UNCHANGED margs
       ELSE /\ margs' = [method |-> ParseOption(argv.method, MethodDefault),
                         model_name |-> ParseOption(argv.model_name, ModelNameDefault)]
            /\ main_pc' = "parsed"
            /\ UNCHANGED main_err
    /\ UNCHANGED <<argv, trainer, save_dir, dir_exists, main_calls>>
    /\ UNCHANGED <<tvars, lvars, mvars, cvars>>

\* sub_dir = model_name + '_' + time stamp; save_dir under checkpoint_dir,
\* created when it does not exist; logger set; the args logged
Main_Prepare ==
    /\ main_pc = "parsed"
    /\ save_dir' = <<"checkpoint_dir", margs.model_name, "stamp">>
    /\ dir_exists' = TRUE
    /\ main_calls' = main_calls \o (IF dir_exists THEN <<>> ELSE <<"makedirs">>)
                       \o <<"setlogger">>
    /\ main_pc' = "prepared"
    /\ UNCHANGED <<argv, margs, main_err, trainer>>
    /\ UNCHANGED <<tvars, lvars, mvars, cvars>>

\* the if / elif / else chain on args.method
Main_Dispatch ==
    /\ main_pc = "prepared"
    /\ LET b == BranchOf(margs.method)
       IN  IF b = "else"
           THEN /\ main_err' = ElseRaises.type
                /\ main_pc' = "exit"
                /\ UNCHANGED <<trainer, margs, main_calls>>
           ELSE /\ margs' = [margs EXCEPT !.model_name = ModelNameAfter(b, @)]
                /\ trainer' = TrainerOf(b)
                /\ main_calls' = Append(main_calls, b)
                /\ main_pc' = "dispatched"
                /\ UNCHANGED main_err
    /\ UNCHANGED <<argv, save_dir, dir_exists>>
    /\ UNCHANGED <<tvars, lvars, mvars, cvars>>

\* trainer.setup()
Main_Setup ==
    /\ main_pc = "dispatched"
    /\ main_calls' = Append(main_calls, "setup")
    /\ main_pc' = "set_up"
    /\ UNCHANGED <<argv, margs, main_err, trainer, save_dir, dir_exists>>
    /\ UNCHANGED <<tvars, lvars, mvars, cvars>>

\* trainer.train()
Main_Train ==
    /\ main_pc = "set_up"
    /\ main_calls' = Append(main_calls, "train")
    /\ main_pc' = "exit"
    /\ UNCHANGED <<argv, margs, main_err, trainer, save_dir, dir_exists>>
    /\ UNCHANGED <<tvars, lvars, mvars, cvars>>

NextMain ==
    \/ Main_Parse
    \/ Main_Prepare
    \/ Main_Dispatch
    \/ Main_Setup
    \/ Main_Train

SpecMain == InitMain /\ [][NextMain]_vars

(***************************************************************************)
(* Properties.                                                             *)
(***************************************************************************)
Ops(l) == [k \in 1..Len(l) |-> l[k].op]

IsPrefix(a, b) == Len(a) <= Len(b) /\ \A k \in 1..Len(a) : a[k] = b[k]

\* the latest position of the maximum of h, 0 for the empty history
LatestArgmax(h) ==
    IF h = <<>> THEN 0
    ELSE CHOOSE k \in 1..Len(h) :
            h[k] = MaxSeq(h) /\ \A j \in (k + 1)..Len(h) : h[j] < MaxSeq(h)

InEpoch == pc \in {"train", "eval", "checkpoint", "scheduler", "tsne", "loop"}

\* C1: with train_mode = 'multi_source', train() of every trainer ends in the
\* configuration error before anything is set up: no optimizer, no scheduler,
\* no batch drawn, no parameter changed, no epoch entered.
C1_MultiSourceRejected ==
    (args.train_mode = "multi_source") =>
        /\ pc \in {"constructed", "failed"}
        /\ (pc = "failed" => err = "multi_source")
        /\ optimizer = "unset"
        /\ lr_scheduler = "unset"
        /\ draws = 0
        /\ iters = [train |-> 0, src |-> 0]
        /\ params = 0
        /\ epoch = 0

C1_Witness ==
    /\ args.train_mode = "multi_source"
    /\ args.model_name = "ACDANN"
    /\ pc = "failed"
    /\ err = "multi_source"

\* C2: a loss built with entropy_conditioning and the two-class head never
\* returns a loss: every forward call ends in NotImplementedError.
C2_EntropyTwoClassRaises ==
    (adv.entropy_conditioning /\ ~adv.sigmoid) =>
        /\ out.status \in {"none", "NotImplementedError"}
        /\ (calls > 0 => out.status = "NotImplementedError")
        /\ out.loss = -1
        /\ ~out.weighted

C2_Witness ==
    /\ adv.entropy_conditioning
    /\ ~adv.sigmoid
    /\ calls = 2
    /\ out.status = "NotImplementedError"

\* C3: once the checkpoint decision of epoch e is taken, best_acc is the
\* maximum of the validation accuracies of epochs 1..e (and of 0.0) and
\* best_epoch the latest epoch reaching it; while the decision is pending
\* best_acc is the maximum over the earlier epochs, so it never decreases.
C3_BestIsLatestMax ==
    /\ (pc # "checkpoint") =>
          /\ best_acc = MaxSeq(acc_hist)
          /\ best_epoch = LatestArgmax(acc_hist)
    /\ (pc = "checkpoint") =>
          /\ best_acc = MaxSeq(SubSeq(acc_hist, 1, Len(acc_hist) - 1))
          /\ best_epoch = LatestArgmax(SubSeq(acc_hist, 1, Len(acc_hist) - 1))
          /\ best_acc <= MaxSeq(acc_hist)

C3_Witness ==
    /\ pc = "scheduler"
    /\ Len(acc_hist) = 2
    /\ acc_hist[1] = acc_hist[2]
    /\ acc_hist[1] > 0
    /\ best_epoch = 2

\* C4: when train() has completed, the best epoch it reported is one of the
\* epochs executed, within 1..max_epoch, and the best accuracy lies in [0,1]
\* (numerator within 0..AccDen); every run of at least one epoch reports one.
C4_ReportedBestInRange ==
    (pc = "done") =>
        /\ (args.max_epoch >= 1) => reported # <<>>
        /\ (reported # <<>>) =>
              /\ reported = <<best_epoch, best_acc>>
              /\ reported[1] \in 1..args.max_epoch
              /\ reported[1] <= epoch
              /\ reported[2] >= 0
              /\ reported[2] <= AccDen

C4_Witness ==
    /\ pc = "done"
    /\ args.max_epoch = 2
    /\ LoaderLen(data.val) = 2
    /\ reported = <<1, AccDen>>

\* C5: epochs run in the order 1..max_epoch and the events of an epoch are
\* the optimizer steps 1..num_iter, then one validation pass, then one
\* best-accuracy update made with that pass's result, then one scheduler step
\* when a scheduler is configured (then ICDAN's periodic diagnostics).
EpochCanon ==
    [k \in 1..num_iter |-> "opt"] \o <<"eval", "ckpt">>
    \o (IF lr_scheduler = "scheduler" THEN <<"sched">> ELSE <<>>)
    \o (IF args.model_name = "ICDAN" /\ args.tsne /\ (epoch = 1 \/ epoch % 5 = 0)
        THEN <<"tsne">> ELSE <<>>)

C5_PhaseOrder ==
    /\ epoch \in 0..args.max_epoch
    /\ Len(acc_hist) \in {epoch - 1, epoch}
    /\ (pc \in {"terminal", "done"}) => epoch = args.max_epoch
    /\ (InEpoch /\ epoch >= 1) =>
          /\ IsPrefix(Ops(log), EpochCanon)
          /\ \A k \in 1..Len(log) :
                /\ log[k].ep = epoch
                /\ (log[k].op = "opt") => (log[k].v = k /\ k <= num_iter)
                /\ (log[k].op \in {"eval", "ckpt"}) =>
                      (Len(acc_hist) = epoch /\ log[k].v = acc_hist[epoch])
          /\ (pc = "eval") => Ops(log) = [k \in 1..num_iter |-> "opt"]
          /\ (pc = "loop") =>
                /\ Ops(log) = EpochCanon
                /\ sched_pos = (IF lr_scheduler = "scheduler" THEN epoch ELSE 0)
          /\ (pc \in {"scheduler", "tsne", "loop"}) =>
                (Len(acc_hist) = epoch /\ best_acc >= acc_hist[epoch])

C5_Witness ==
    /\ pc = "loop"
    /\ epoch = 2
    /\ num_iter = 2
    /\ lr_scheduler = "scheduler"
    /\ sched_pos = 2
    /\ Ops(log) = <<"opt", "opt", "eval", "ckpt", "sched">>

\* C6: when the TrainPhase of an epoch is over, exactly N optimizer steps were
\* taken in it, N the number of batches of the target 'train' loader in the
\* adversarial trainers and of the source loader in CNN_recon, whatever the
\* length of the other loader.
PrimaryLen ==
    IF args.model_name \in {"ICDAN", "ACDANN"}
    THEN LoaderLen(data.train) ELSE LoaderLen(data.src)

C6_StepsPerEpoch ==
    (epoch >= 1 /\ pc \in {"eval", "checkpoint", "scheduler", "tsne", "loop"}) =>
        /\ Count(Ops(log), "opt") = PrimaryLen
        /\ i = PrimaryLen
        /\ (pc = "loop") => params = epoch * PrimaryLen

C6_Witness ==
    /\ pc = "eval"
    /\ args.model_name = "ICDAN"
    /\ LoaderLen(data.train) = 2
    /\ LoaderLen(data.src) = 1
    /\ Count(Ops(log), "opt") = 2

\* C7: the domain-label vector the loss builds for s source rows and t target
\* rows has s + t entries, 1 in the first s and 0 in the last t, under both
\* heads; for s = 3, t = 5 it is [1,1,1,0,0,0,0,0].
C7_DomainLabels ==
    (out.status # "none") =>
        /\ Len(out.d_label) = out.s + out.t
        /\ \A k \in 1..Len(out.d_label) :
              out.d_label[k] = (IF k <= out.s THEN 1 ELSE 0)
        /\ (out.s = 3 /\ out.t = 5) => out.d_label = <<1, 1, 1, 0, 0, 0, 0, 0>>

C7_Witness ==
    /\ out.s = 3
    /\ out.t = 5
    /\ ~adv.sigmoid
    /\ out.d_label = <<1, 1, 1, 0, 0, 0, 0, 0>>

\* C8: in the adversarial trainers the loss of every iteration is
\* loss_c + tradeoff * loss_d with tradeoff the value scheduled for the
\* current epoch, which holds unchanged through the whole epoch.
C8_CombinedLoss ==
    (args.model_name \in Adversarial /\ epoch >= 1) =>
        /\ tradeoff = get_tradeoff(args.tradeoff, epoch, args.max_epoch)
        /\ (pc \in {"train", "eval"} /\ i >= 1) =>
              step.loss = step.loss_c * TradeoffScale
                          + get_tradeoff(args.tradeoff, epoch, args.max_epoch) * step.loss_d

C8_Witness ==
    /\ pc = "train"
    /\ args.model_name = "ICDAN"
    /\ args.tradeoff = "exp"
    /\ args.max_epoch = 2
    /\ epoch = 1
    /\ i = 1
    /\ step.loss_c = 1
    /\ step.loss_d = 2
    /\ step.loss = TradeoffScale + 2 * 98661

\* C9: the exact map returns per row the flattened outer product in
\* class-major order: entry c*D + d is g[c] * f[d], the width is C*D and row
\* i is built from row i of f and g alone; f = [[1,2]], g = [[0.3,0.7]] gives
\* [0.3,0.6,0.7,1.4] (tenths: [3,6,7,14]).
C9_ExactOuterProduct ==
    (fmap.kind = "exact" /\ mcall.n > 0) =>
        /\ Len(mcall.out) = Len(mcall.f)
        /\ \A r \in 1..Len(mcall.out) :
              /\ Len(mcall.out[r]) = dims.C * dims.D
              /\ \A c \in 0..(dims.C - 1), d \in 0..(dims.D - 1) :
                    mcall.out[r][c * dims.D + d + 1] = mcall.g[r][c + 1] * mcall.f[r][d + 1]
        /\ (mcall.f = <<<<1, 2>>>> /\ mcall.g = <<<<3, 7>>>>) =>
              mcall.out = <<<<3, 6, 7, 14>>>>

C9_Witness ==
    /\ fmap.kind = "exact"
    /\ mcall.f = <<<<1, 2>>>>
    /\ mcall.g = <<<<3, 7>>>>
    /\ mcall.out = <<<<3, 6, 7, 14>>>>

\* C10: the two random matrices of the randomized map keep their construction
\* values through forward calls on any device and optimizer steps, a call
\* repeated with the same (f, g) returns the same output, and every output
\* row has the configured output_dim entries.
C10_FrozenProjection ==
    (fmap.kind = "randomized") =>
        /\ fmap.Rf = fmap0.Rf
        /\ fmap.Rg = fmap0.Rg
        /\ fmap.output_dim = fmap0.output_dim
        /\ mrepeat.same => mrepeat.out = mcall.out
        /\ (mcall.n > 0) =>
              /\ Len(mcall.out) = Len(mcall.f)
              /\ \A r \in 1..Len(mcall.out) : Len(mcall.out[r]) = fmap0.output_dim

C10_Witness ==
    /\ fmap.kind = "randomized"
    /\ msteps = 1
    /\ mrepeat.same
    /\ mcall.device = "cuda"
    /\ dims.D # dims.C
    /\ fmap.Rf = fmap0.Rf

\* the locals of the latest iteration are in `step`
StepHeld == pc \in {"train", "eval"} /\ i >= 1

SumOf(h, key) == SumSeq([k \in 1..Len(h) |-> h[k][key]])

AdvOps ==
    <<"draw_target", "draw_source", "zero_grad", "forward", "loss_c", "loss_d",
      "backward", "step">>

\* C11: the accuracy attribute of the loss is overwritten by every call that
\* returns: it is the number of rows of that call's batch on which the
\* prediction equals the domain label (the fraction is this over the rows),
\* whatever earlier calls left; and the value an iteration adds to the epoch's
\* 'Discriminator' accuracy is the fraction of that iteration's own call.
C11_AccuracyOverwritten ==
    /\ (out.status = "returned") =>
          /\ Len(out.pred) = out.s + out.t
          /\ adv.domain_discriminator_accuracy =
                Cardinality({k \in 1..Len(out.pred) :
                                out.pred[k] = (IF k <= out.s THEN 1 ELSE 0)})
    /\ (args.model_name = "ICDAN" /\ StepHeld) =>
          /\ out.status = "returned"
          /\ out.s = step.ys
          /\ out.t = step.yt
          /\ step.acc_d * (out.s + out.t) = adv.domain_discriminator_accuracy * AccUnit
          /\ Len(iter_hist) = i
          /\ iter_hist[i].disc = step.acc_d
          /\ epoch_acc.disc = SumOf(iter_hist, "disc")

C11_Witness ==
    /\ args.model_name = "ICDAN"
    /\ pc = "eval"
    /\ i = 2
    /\ calls >= 2
    /\ iter_hist[1].disc = AccUnit
    /\ step.acc_d * 3 = 2 * AccUnit
    /\ adv.domain_discriminator_accuracy = 2

\* C13 (as claimed): the diagnostics are rendered only after the last epoch,
\* max_epoch, has completed, and a completed train() reports the final
\* validation accuracy exactly once, as its last action.
C13_TerminalOnly ==
    /\ \A k \in 1..Len(log) : (log[k].op = "tsne") => (log[k].ep = args.max_epoch)
    /\ (pc = "done") =>
          /\ Count(Ops(log), "final") = 1
          /\ log[Len(log)].op = "final"

\* C14 (as claimed): for any source batch size s and target batch size t the
\* source halves hold exactly the s source rows, the target halves the t
\* target rows, and the domain labels have one entry per row, 1 on exactly the
\* s source rows.
C14_SplitMatchesBatches ==
    (args.model_name \in Adversarial /\ step.s > 0) =>
        /\ step.ys = step.s
        /\ step.yt = step.t
        /\ (step.d_label # <<>>) =>
              /\ Len(step.d_label) = step.s + step.t
              /\ \A k \in 1..Len(step.d_label) :
                    step.d_label[k] = (IF k <= step.s THEN 1 ELSE 0)

\* C15 (as claimed): an iteration whose source and target batches differ in
\* size ends in an error before a loss is computed or an optimizer step is
\* applied.
C15_EqualBatchEnforced ==
    (args.model_name \in Adversarial /\ step.s > 0 /\ step.s # step.t) =>
        /\ pc = "failed"
        /\ Count(step.ops, "loss_c") = 0
        /\ Count(step.ops, "loss_d") = 0
        /\ Count(step.ops, "step") = 0

\* C16 (as claimed): in both adversarial trainers the domain loss is
\* differentiated into the task model through the features only, never into
\* the logits through the class probabilities.
C16_ProbabilitiesDetached ==
    (args.model_name \in Adversarial /\ StepHeld) => step.grad_into = {"f"}

\* C17: the loss of an iteration, hence its parameter update, depends on the
\* source data, the source labels and the target data, never on the labels of
\* the target 'train' batch.
C17_TargetLabelsUnread ==
    (args.model_name \in Adversarial /\ StepHeld) =>
        /\ "target_labels" \notin step.reads
        /\ step.reads = {"source_data", "source_labels", "target_data"}
        /\ Count(step.ops, "draw_target") = 1

C17_Witness ==
    /\ args.model_name = "ACDANN"
    /\ pc = "train"
    /\ i = 1
    /\ step.reads = {"source_data", "source_labels", "target_data"}
    /\ params = 1

\* C18: an iteration runs draw, draw, zero_grad, one forward, the two losses,
\* backward, one optimizer step, in this order (a failing iteration runs a
\* prefix); the batches of an iteration are drawn only when every earlier
\* iteration has stepped, and the gradient buffers never hold two backward
\* passes.
C18_IterationOrder ==
    (args.model_name \in Adversarial) =>
        /\ grads \in {0, 1}
        /\ IsPrefix(step.ops, AdvOps)
        /\ StepHeld =>
              /\ step.ops = AdvOps
              /\ grads = 1
        /\ (pc # "failed") => draws = 2 * params
        /\ (pc = "failed" /\ step.s > 0) => draws = 2 * params + 2

C18_Witness ==
    /\ args.model_name = "ICDAN"
    /\ pc = "eval"
    /\ i = 2
    /\ grads = 1
    /\ params = 2
    /\ draws = 4
    /\ step.ops = AdvOps

\* C20: the accumulators hold the sums over the iterations of the current
\* epoch alone, the averages logged for the epoch are those sums over its N
\* iterations, and best_acc / best_epoch carry over from the earlier epochs.
C20_EpochAccumulators ==
    /\ (InEpoch /\ epoch >= 1) =>
          /\ Len(iter_hist) = i
          /\ epoch_loss.a = SumOf(iter_hist, "a")
          /\ epoch_loss.b = SumOf(iter_hist, "b")
          /\ epoch_acc.src = SumOf(iter_hist, "src")
          /\ epoch_acc.disc = SumOf(iter_hist, "disc")
          /\ epoch_loss.a \in i..(3 * i)
          /\ epoch_acc.src \in 0..(i * AccUnit)
    /\ (InEpoch /\ train_avg.n > 0) =>
          /\ train_avg.n = PrimaryLen
          /\ Len(iter_hist) = train_avg.n
          /\ train_avg.loss.a = SumOf(iter_hist, "a")
          /\ train_avg.loss.b = SumOf(iter_hist, "b")
          /\ train_avg.acc.src = SumOf(iter_hist, "src")
          /\ train_avg.acc.disc = SumOf(iter_hist, "disc")
    /\ (InEpoch /\ epoch >= 2 /\ pc \in {"train", "eval"}) =>
          /\ best_acc = MaxSeq(acc_hist)
          /\ best_epoch \in 1..(epoch - 1)
          /\ \A k \in 1..(epoch - 1) : best_acc >= acc_hist[k]

C20_Witness ==
    /\ pc = "checkpoint"
    /\ epoch = 2
    /\ train_avg.n = 2
    /\ train_avg.loss.a = 3
    /\ acc_hist[1] > 0
    /\ best_acc = acc_hist[1]
    /\ best_epoch = 1

SavedThenLoaded == saved # Absent /\ cop.op = "load"

\* C12 (as claimed): under any one run configuration, save_model followed by
\* load_model restores the parameters the model had when it was saved,
\* whatever updates happened in between.
C12_RoundTrip ==
    SavedThenLoaded =>
        /\ cop.status = "ok"
        /\ state_dict = saved

\* C12 (amended): the round trip holds for the run configurations whose
\* load_path names the file save_model writes, save_path + '.pth'; the
\* artifact at that path holds the parameters of the latest save.
C12_RoundTripSamePath ==
    /\ (saved # Absent) =>
          /\ cargs.has_save_path
          /\ files[Append(cargs.save_path, ".pth")] = saved
    /\ (SavedThenLoaded /\ cargs.load_path = Append(cargs.save_path, ".pth")) =>
          /\ cop.status = "ok"
          /\ state_dict = saved

C12_Witness ==
    /\ SavedThenLoaded
    /\ cargs.save_path = <<"run">>
    /\ cargs.load_path = <<"run", ".pth">>
    /\ saved = 1
    /\ csteps = 3
    /\ state_dict = 1
    /\ cop.status = "ok"

\* what a test() call must leave as it was
TestFrame ==
    UNCHANGED <<params, grads, optimizer, lr_scheduler, sched_pos, best_acc, best_epoch,
                iters, draws, disc_training>>

\* C21: a test() call (the EvalPhase of an epoch, and the call after the
\* loop) leaves parameters, gradients, optimizer, scheduler position, best
\* accuracy and the training iterators unchanged; when it returns it has
\* visited every batch of the validation loader exactly once, in order, each
\* with gradient tracking disabled, its result is the mean of the per-batch
\* accuracies (their sum, over AccScale times the number of batches), and
\* the model is left in evaluation mode.  Every training iteration, also
\* after a validation pass, runs with the task model in training mode, and
\* in the adversarial trainers with the discriminator in training mode too.
C21_EvalPhase ==
    [][/\ (pc \in {"eval", "terminal"}) => TestFrame
       /\ (pc \in {"eval", "terminal"} /\ pc' # "failed") =>
             /\ val_pass'.visited = [k \in 1..LoaderLen(data.val) |-> k]
             /\ \A k \in DOMAIN val_pass'.grad_enabled : ~val_pass'.grad_enabled[k]
             /\ Len(val_pass'.grad_enabled) = LoaderLen(data.val)
             /\ Len(val_pass'.accs) = LoaderLen(data.val)
             /\ new_acc' = SumSeq(val_pass'.accs)
             /\ training' = FALSE
       /\ (pc = "train") =>
             /\ step'.mode.model
             /\ (args.model_name \in Adversarial) => step'.mode.disc]_vars

C21_Witness ==
    /\ pc = "checkpoint"
    /\ epoch = 2
    /\ Len(acc_hist) = 2
    /\ Len(iter_hist) >= 1
    /\ params >= 2
    /\ val_pass.visited = <<1, 2>>
    /\ val_pass.accs = <<0, 1>>
    /\ new_acc = 1
    /\ ~training
    /\ disc_training

\* C22: every attribute train() or test_tsne() reads has been assigned
\* before the read, so no run of train() ends in an undefined-attribute
\* failure: not where the optimizer is built, not in the loop, not in the
\* diagnostics after it.
C22_AttributesAssigned == err # "AttributeError"

\* the trainers constructed so far
Constructed == {main_calls[k] : k \in DOMAIN main_calls} \cap Branches

\* the run has ended
MainEnded == main_pc = "exit"

\* C23: in a run of the multi-domain entry point, a method value the parser
\* accepts has selected exactly one trainer by the time setup() is called;
\* every branch of the dispatch is reachable, that is, a run given the
\* method value a branch compares with is accepted and constructs that
\* branch's trainer; and a run given a method value that matches no branch
\* ends in the explicit error 'The method does not exist.', raised as an
\* exception, with neither setup() nor train() called.
C23_DispatchTotal ==
    /\ (main_pc \in {"dispatched", "set_up"} \/ (MainEnded /\ main_err = "none")) =>
          /\ margs.method \in MethodChoices
          /\ Cardinality(Constructed) = 1
          /\ trainer = TrainerOf(margs.method)
          /\ trainer # "unset"
    /\ (MainEnded /\ BranchOf(argv.method) # "else") =>
          /\ main_err = "none"
          /\ trainer = TrainerOf(BranchOf(argv.method))
    /\ (MainEnded /\ argv.method # "absent" /\ BranchOf(argv.method) = "else") =>
          /\ main_err = Raise("exception", "The method does not exist.").type
          /\ \A k \in DOMAIN main_calls : main_calls[k] \notin {"setup", "train"}

=============================================================================
